---- MODULE Spec2Model ----
(***************************************************************************)
(* The DCF valuation page of main.py as a state machine.                  *)
(*                                                                         *)
(* main.py is a Streamlit script: every user event (a widget edit, a       *)
(* button press) runs the whole script top to bottom once.  The state      *)
(* that survives from one run to the next is the widget values,            *)
(* st.session_state and the st.cache_data memo of get_stock_data_safe.     *)
(* Each action below is one user event followed by the complete script     *)
(* run it triggers; the variables the run assigns (current_price ...       *)
(* diff_pct, the messages it shows) describe the page after the run.       *)
(*                                                                         *)
(* Numbers.  Python floats are modelled as exact rationals [n, d] in       *)
(* lowest terms with d > 0; Python's None is the record NoneV.  Rates are  *)
(* held in percent (the sliders step by 0.01).  TLC integers are 32 bits    *)
(* wide, so the rates are drawn from the slider positions that are         *)
(* multiples of 10% and amounts from small integers: (1+r)^5 then stays     *)
(* within range.                                                           *)
(***************************************************************************)
EXTENDS Integers, Sequences, FiniteSets, TLC

(***************************************************************************)
(* Bounds of the model: the manual shares outstanding and free cash flow   *)
(* range over -MaxShares .. MaxShares and -MaxFcf .. MaxFcf.               *)
(***************************************************************************)
MaxShares == 1
MaxFcf == 1

(***************************************************************************)
(* Python values                                                           *)
(***************************************************************************)
NoneV == [t |-> "None"]

Abs(i) == IF i < 0 THEN -i ELSE i

RECURSIVE GCD(_, _)
GCD(a, b) == IF b = 0 THEN a ELSE GCD(b, a % b)

\* the rational n/d (d # 0) in lowest terms with a positive denominator
Norm(n, d) ==
    LET g == GCD(Abs(n), Abs(d))
        s == IF d < 0 THEN -1 ELSE 1
    IN  [n |-> s * (n \div g), d |-> s * (d \div g)]

Rat(i) == [n |-> i, d |-> 1]

\* a * b
Mul(a, b) ==
    LET g1 == GCD(Abs(a.n), b.d)
        g2 == GCD(Abs(b.n), a.d)
    IN  [n |-> (a.n \div g1) * (b.n \div g2), d |-> (a.d \div g2) * (b.d \div g1)]

\* a / b for b # 0 (Python raises ZeroDivisionError for b = 0: see the callers)
Div(a, b) ==
    Mul(a, IF b.n > 0 THEN [n |-> b.d, d |-> b.n] ELSE [n |-> -b.d, d |-> -b.n])

\* a + b
Add(a, b) ==
    LET g == GCD(a.d, b.d)
        l == (a.d \div g) * b.d
    IN  Norm(a.n * (l \div a.d) + b.n * (l \div b.d), l)

\* a - b
Sub(a, b) == Add(a, [n |-> -b.n, d |-> b.d])

\* a ** k for an integer k >= 0
RECURSIVE Pow(_, _)
Pow(a, k) == IF k = 0 THEN Rat(1) ELSE Mul(a, Pow(a, k - 1))

\* a rate held in percent, as a number
Pct(p) == Norm(p, 100)

\* sum(xs) of a list of numbers: from 0, left to right
RECURSIVE SumFrom(_, _)
SumFrom(acc, xs) == IF xs = <<>> THEN acc ELSE SumFrom(Add(acc, Head(xs)), Tail(xs))

Sum(xs) == SumFrom(Rat(0), xs)

(***************************************************************************)
(* The data provider (yfinance) and get_stock_data_safe                    *)
(***************************************************************************)
DefaultTicker == "7203.T"
Tickers == {"7203.T", "AAPL"}

\* the four messages get_stock_data_safe returns itself (named here by
\* what could not be obtained)
MsgInfo == "info"
MsgHistory == "history"
MsgShares == "shares"
MsgCashflow == "cashflow"

\* an empty dict / an empty DataFrame
Empty == [k \in {} |-> NoneV]

\* dict.get(key)
Get(dict, key) == IF key \in DOMAIN dict THEN dict[key] ELSE NoneV

\* What Yahoo Finance may answer for a ticker: an exception raised by the
\* query (raises: its str(e), or NoneV when nothing is raised), the info
\* dict, the closes of the 5-day price history and the rows of the
\* cash-flow statement (each row's latest figure).
Answer(raises, info, history, cashflow) ==
    [raises |-> raises, info |-> info, history |-> history, cashflow |-> cashflow]

Info(shares) == ("currency" :> [s |-> "JPY"]) @@ ("sharesOutstanding" :> shares)

\* The answers the model lets the provider give.  The figures of the two
\* companies are disjoint; every way the query can fail is exercised on
\* the first ticker, the second always answers.
ProviderAnswers(ticker) ==
    IF ticker = "7203.T"
    THEN { Answer(NoneV, Info(Rat(2)), <<Rat(1), Rat(2)>>, ("Free Cash Flow" :> Rat(3))),
           Answer(NoneV, Info(Rat(2)), <<Rat(1), Rat(2)>>,
                  ("Operating Cash Flow" :> Rat(1)) @@ ("Investing Cash Flow" :> Rat(-3))),
           Answer(NoneV, Empty, <<Rat(2)>>, ("Free Cash Flow" :> Rat(3))),
           Answer(NoneV, Info(Rat(2)), <<>>, ("Free Cash Flow" :> Rat(3))),
           Answer(NoneV, ("currency" :> [s |-> "JPY"]), <<Rat(2)>>, ("Free Cash Flow" :> Rat(3))),
           Answer(NoneV, Info(Rat(0)), <<Rat(2)>>, ("Free Cash Flow" :> Rat(3))),
           Answer(NoneV, Info(Rat(2)), <<Rat(2)>>, Empty),
           Answer(NoneV, Info(Rat(2)), <<Rat(2)>>, ("Investing Cash Flow" :> Rat(-3))),
           Answer([s |-> "Too Many Requests"], Empty, <<>>, Empty),
           Answer([s |-> ""], Empty, <<>>, Empty) }
    ELSE { Answer(NoneV, Info(Rat(3)), <<Rat(3)>>, ("Free Cash Flow" :> Rat(1))) }

\* the tuple get_stock_data_safe returns
Fetched(p, s, f, err) == [p |-> p, s |-> s, f |-> f, err |-> err]

Failed(msg) == Fetched(NoneV, NoneV, NoneV, [s |-> msg])

\* the body of get_stock_data_safe on one answer of the provider
GetStockData(a) ==
    IF a.raises # NoneV THEN Fetched(NoneV, NoneV, NoneV, a.raises)
    ELSE IF a.info = Empty THEN Failed(MsgInfo)
    ELSE IF a.history = <<>> THEN Failed(MsgHistory)
    ELSE IF Get(a.info, "sharesOutstanding") \in {NoneV, Rat(0)} THEN Failed(MsgShares)
    ELSE IF a.cashflow = Empty THEN Failed(MsgCashflow)
    ELSE IF "Free Cash Flow" \in DOMAIN a.cashflow
         THEN Fetched(a.history[Len(a.history)], Get(a.info, "sharesOutstanding"),
                      a.cashflow["Free Cash Flow"], NoneV)
    ELSE IF "Operating Cash Flow" \notin DOMAIN a.cashflow
         THEN Failed("'Operating Cash Flow'")
    ELSE IF "Investing Cash Flow" \notin DOMAIN a.cashflow
         THEN Failed("'Investing Cash Flow'")
    ELSE Fetched(a.history[Len(a.history)], Get(a.info, "sharesOutstanding"),
                 Add(a.cashflow["Operating Cash Flow"], a.cashflow["Investing Cash Flow"]),
                 NoneV)

\* Python's truth value of err (None and "" are false)
Truthy(err) == err # NoneV /\ err # [s |-> ""]

(***************************************************************************)
(* The widgets                                                             *)
(***************************************************************************)
\* the positions of the sliders and of the number inputs the model visits
DiscountRates == {10, 20}
GrowthRates == {-10, 10, 20}
TerminalGrowths == {0, 10, 20}
ManualPrices == {Rat(0), Rat(1)}
ManualShares == {Rat(i) : i \in -MaxShares .. MaxShares}
ManualFcfs == {Rat(i) : i \in -MaxFcf .. MaxFcf}

\* value= of the three manual number inputs (1000.0, 100000000.0 and
\* 5000000000.0), each standing as 1 among the model's small amounts
DefaultPrice == 1
DefaultShares == 1
DefaultFcf == 1

projection_years == 5

VARIABLES
    input_method,       \* the radio: "auto" (Yahoo Finance) or "manual"
    ticker_input,       \* the text input of the automatic mode
    manual,             \* the three number inputs of the manual mode
    discount_rate,      \* the sliders and the terminal-growth input, in percent
    growth_rate,
    terminal_growth,
    session_state,      \* st.session_state: a dict
    cache,              \* st.cache_data's memo of get_stock_data_safe, by ticker
    fetch_btn,          \* the buttons' values in the last run
    calc_btn,
    fetch_msg,          \* what the fetch branch showed: "", "error" or "success"
    current_price,      \* the script's variables after the last run
    shares_outstanding,
    latest_fcf,
    data_fetched,
    ticker_display,
    outcome,            \* how the calculation branch of the last run ended
    future_fcfs,
    pv_fcfs,
    terminal_value,
    pv_terminal_value,
    enterprise_value,
    intrinsic_value,
    diff_pct

widgets == <<input_method, ticker_input, manual, discount_rate, growth_rate, terminal_growth>>

page == <<fetch_btn, calc_btn, fetch_msg, current_price, shares_outstanding, latest_fcf,
          data_fetched, ticker_display, outcome, future_fcfs, pv_fcfs, terminal_value,
          pv_terminal_value, enterprise_value, intrinsic_value, diff_pct>>

vars == <<widgets, session_state, cache, page>>

\* a variable the run did not assign
Unset == [t |-> "unset"]

ManualDefaults ==
    [price |-> Rat(DefaultPrice), shares |-> Rat(DefaultShares), fcf |-> Rat(DefaultFcf)]

(***************************************************************************)
(* The fetch branch                                                        *)
(***************************************************************************)
\* get_stock_data_safe behind st.cache_data: a memoised result is returned
\* without running the body
CachedGetStockData(memo, ticker, a) ==
    IF ticker \in DOMAIN memo THEN memo[ticker] ELSE GetStockData(a)

\* the four assignments to st.session_state
StoreFetched(ss, p, s, f, ticker) ==
    ("fetched_price" :> p) @@ ("fetched_shares" :> s) @@ ("fetched_fcf" :> f)
        @@ ("ticker" :> [s |-> ticker]) @@ ss

\* st.session_state after the fetch branch, given what the fetch returned
AfterFetch(ss, res, ticker) ==
    IF Truthy(res.err) THEN ss ELSE StoreFetched(ss, res.p, res.s, res.f, ticker)

(***************************************************************************)
(* The calculation                                                         *)
(***************************************************************************)
OnePlus(pct) == Add(Rat(1), Pct(pct))

\* pred_fcf = current_fcf_val * (1 + growth_rate)
PredFcf(current_fcf_val, g) == Mul(current_fcf_val, OnePlus(g))

\* disc_factor = (1 + discount_rate) ** t
DiscFactor(r, t) == Pow(OnePlus(r), t)

\* (mutant) a free cash flow left in st.session_state by an earlier fetch
\* takes the place of the one given
InitialFcfValStale(fcf) ==
    IF "fetched_fcf" \in DOMAIN session_state THEN session_state["fetched_fcf"] ELSE fcf

\* the first value of current_fcf_val
InitialFcfVal(fcf) == fcf

\* (mutant) the loop without current_fcf_val = pred_fcf: every year is
\* projected from the base figure
RECURSIVE ProjectFromBase(_, _, _, _, _, _)
ProjectFromBase(t, current_fcf_val, g, r, future, pvs) ==
    IF t > projection_years THEN [future_fcfs |-> future, pv_fcfs |-> pvs]
    ELSE LET pred_fcf == PredFcf(current_fcf_val, g)
             pv == Div(pred_fcf, DiscFactor(r, t))
         IN  ProjectFromBase(t + 1, current_fcf_val, g, r,
                             Append(future, pred_fcf), Append(pvs, pv))

\* the projection loop from year t on: the two lists it builds
RECURSIVE Project(_, _, _, _, _, _)
Project(t, current_fcf_val, g, r, future, pvs) ==
    IF t > projection_years THEN [future_fcfs |-> future, pv_fcfs |-> pvs]
    ELSE LET pred_fcf == PredFcf(current_fcf_val, g)
             pv == Div(pred_fcf, DiscFactor(r, t))
         IN  Project(t + 1, pred_fcf, g, r, Append(future, pred_fcf), Append(pvs, pv))

\* (mutant) the guard left out
SharesIsZeroNever(shares) == FALSE

\* the test of the shares-outstanding guard (None == 0 is False)
SharesIsZero(shares) == shares = Rat(0)

\* the test of the rate guard
RateRejected(r, tg) == r <= tg

\* (mutant) the Gordon formula without the year of growth in the numerator
TerminalValueNoGrowth(last_fcf, r, tg) == Div(last_fcf, Pct(r - tg))

\* terminal_value
TerminalValue(last_fcf, r, tg) == Div(Mul(last_fcf, OnePlus(tg)), Pct(r - tg))

\* pv_terminal_value
PvTerminalValue(tv, r) == Div(tv, Pow(OnePlus(r), projection_years))

\* enterprise_value
EnterpriseValue(pvs, pv_tv) == Add(Sum(pvs), pv_tv)

NoFigures ==
    [future_fcfs |-> Unset, pv_fcfs |-> Unset, terminal_value |-> Unset,
     pv_terminal_value |-> Unset, enterprise_value |-> Unset, intrinsic_value |-> Unset,
     diff_pct |-> Unset]

\* The calculation branch: how it ends and the values it leaves behind.
\* "TypeError" is None reaching the arithmetic of the loop; a
\* "ZeroDivisionError" is a division by a zero float.
Calculation(clicked, method, fetched, price, shares, fcf, r, g, tg) ==
    IF ~clicked THEN [outcome |-> "idle"] @@ NoFigures
    ELSE IF ~fetched /\ method = "auto" THEN [outcome |-> "NeedFetch"] @@ NoFigures
    ELSE IF SharesIsZero(shares) THEN [outcome |-> "SharesZero"] @@ NoFigures
    ELSE IF fcf = NoneV THEN [outcome |-> "TypeError"] @@ NoFigures
    ELSE
      LET lists == Project(1, InitialFcfVal(fcf), g, r, <<>>, <<>>)
          tv == TerminalValue(lists.future_fcfs[projection_years], r, tg)
          pv_tv == PvTerminalValue(tv, r)
          ev == EnterpriseValue(lists.pv_fcfs, pv_tv)
          iv == Div(ev, shares)
          diff == Sub(iv, price)
      IN  IF RateRejected(r, tg)
          THEN [outcome |-> "RateRejected"] @@ lists @@ NoFigures
          ELSE IF shares = NoneV
          THEN [outcome |-> "TypeError", terminal_value |-> tv, pv_terminal_value |-> pv_tv,
                enterprise_value |-> ev] @@ lists @@ NoFigures
          ELSE IF shares = Rat(0)
          THEN [outcome |-> "ZeroDivisionError", terminal_value |-> tv,
                pv_terminal_value |-> pv_tv, enterprise_value |-> ev] @@ lists @@ NoFigures
          ELSE IF price = Rat(0)
          THEN [outcome |-> "ZeroDivisionError", terminal_value |-> tv,
                pv_terminal_value |-> pv_tv, enterprise_value |-> ev,
                intrinsic_value |-> iv] @@ lists @@ NoFigures
          ELSE [outcome |-> "rendered", terminal_value |-> tv, pv_terminal_value |-> pv_tv,
                enterprise_value |-> ev, intrinsic_value |-> iv,
                diff_pct |-> Mul(Div(diff, price), Rat(100))] @@ lists

(***************************************************************************)
(* One run of the script                                                   *)
(***************************************************************************)
\* The run with the widgets at their new values (the primed widget
\* variables), the two buttons as given and, when the provider is
\* queried, its answer a.  (\E x \in {e} names the value of e.)
Script(fetch, calc, a) ==
    \E auto \in {input_method' = "auto"} :
    \E res \in {CachedGetStockData(cache, ticker_input', a)} :
    \E ss \in {IF auto /\ fetch THEN AfterFetch(session_state, res, ticker_input')
               ELSE session_state} :
    \E have \in {auto /\ "fetched_price" \in DOMAIN ss} :
    \E price \in {IF ~auto THEN manual'.price
                  ELSE IF have THEN ss["fetched_price"] ELSE Rat(0)} :
    \E shares \in {IF ~auto THEN manual'.shares
                   ELSE IF have THEN ss["fetched_shares"] ELSE Rat(0)} :
    \E fcf \in {IF ~auto THEN manual'.fcf
                ELSE IF have THEN ss["fetched_fcf"] ELSE Rat(0)} :
    \E fetched \in {~auto \/ have} :
    \E c \in {Calculation(calc, input_method', fetched, price, shares, fcf,
                          discount_rate', growth_rate', terminal_growth')} :
        /\ fetch_btn' = fetch
        /\ calc_btn' = calc
        /\ cache' = IF auto /\ fetch THEN (ticker_input' :> res) @@ cache ELSE cache
        /\ session_state' = ss
        /\ fetch_msg' = IF auto /\ fetch
                        THEN (IF Truthy(res.err) THEN "error" ELSE "success")
                        ELSE ""
        /\ current_price' = price
        /\ shares_outstanding' = shares
        /\ latest_fcf' = fcf
        /\ data_fetched' = fetched
        /\ ticker_display' = IF ~auto THEN [s |-> "My Stock"]
                             ELSE IF have THEN Get(ss, "ticker")
                             ELSE [s |-> "Manual Input"]
        /\ outcome' = c.outcome
        /\ future_fcfs' = c.future_fcfs
        /\ pv_fcfs' = c.pv_fcfs
        /\ terminal_value' = c.terminal_value
        /\ pv_terminal_value' = c.pv_terminal_value
        /\ enterprise_value' = c.enterprise_value
        /\ intrinsic_value' = c.intrinsic_value
        /\ diff_pct' = c.diff_pct

\* the answer argument of a run that does not query the provider
NoAnswer == Answer(NoneV, Empty, <<>>, Empty)

\* The page after the first run: automatic mode, nothing fetched.  The
\* rate widgets start at 0.08, 0.03 and 0.01; the model starts them at the
\* nearest positions it visits with the same order between discount rate
\* and terminal growth.
Init ==
    /\ input_method = "auto"
    /\ ticker_input = DefaultTicker
    /\ manual = ManualDefaults
    /\ discount_rate = 10
    /\ growth_rate = 10
    /\ terminal_growth = 0
    /\ session_state = Empty
    /\ cache = Empty
    /\ fetch_btn = FALSE
    /\ calc_btn = FALSE
    /\ fetch_msg = ""
    /\ current_price = Rat(0)
    /\ shares_outstanding = Rat(0)
    /\ latest_fcf = Rat(0)
    /\ data_fetched = FALSE
    /\ ticker_display = [s |-> "Manual Input"]
    /\ outcome = "idle"
    /\ future_fcfs = Unset
    /\ pv_fcfs = Unset
    /\ terminal_value = Unset
    /\ pv_terminal_value = Unset
    /\ enterprise_value = Unset
    /\ intrinsic_value = Unset
    /\ diff_pct = Unset

\* the radio; the widgets of the mode left are no longer rendered and
\* start from their value= when the mode is entered again
SelectInputMethod ==
    \E m \in {"auto", "manual"} :
        /\ m # input_method
        /\ input_method' = m
        /\ ticker_input' = DefaultTicker
        /\ manual' = ManualDefaults
        /\ UNCHANGED <<discount_rate, growth_rate, terminal_growth>>
        /\ Script(FALSE, FALSE, NoAnswer)

EditTicker ==
    \E t \in Tickers :
        /\ input_method = "auto"
        /\ t # ticker_input
        /\ ticker_input' = t
        /\ UNCHANGED <<input_method, manual, discount_rate, growth_rate, terminal_growth>>
        /\ Script(FALSE, FALSE, NoAnswer)

EditManual ==
    \E p \in ManualPrices, s \in ManualShares, f \in ManualFcfs :
        /\ input_method = "manual"
        /\ \/ p # manual.price /\ s = manual.shares /\ f = manual.fcf
           \/ p = manual.price /\ s # manual.shares /\ f = manual.fcf
           \/ p = manual.price /\ s = manual.shares /\ f # manual.fcf
        /\ manual' = [price |-> p, shares |-> s, fcf |-> f]
        /\ UNCHANGED <<input_method, ticker_input, discount_rate, growth_rate, terminal_growth>>
        /\ Script(FALSE, FALSE, NoAnswer)

SetDiscountRate ==
    \E r \in DiscountRates :
        /\ r # discount_rate
        /\ discount_rate' = r
        /\ UNCHANGED <<input_method, ticker_input, manual, growth_rate, terminal_growth>>
        /\ Script(FALSE, FALSE, NoAnswer)

SetGrowthRate ==
    \E g \in GrowthRates :
        /\ g # growth_rate
        /\ growth_rate' = g
        /\ UNCHANGED <<input_method, ticker_input, manual, discount_rate, terminal_growth>>
        /\ Script(FALSE, FALSE, NoAnswer)

SetTerminalGrowth ==
    \E tg \in TerminalGrowths :
        /\ tg # terminal_growth
        /\ terminal_growth' = tg
        /\ UNCHANGED <<input_method, ticker_input, manual, discount_rate, growth_rate>>
        /\ Script(FALSE, FALSE, NoAnswer)

\* the fetch button (rendered in the automatic mode only)
ClickFetch ==
    \E a \in ProviderAnswers(ticker_input) :
        /\ input_method = "auto"
        /\ UNCHANGED widgets
        /\ Script(TRUE, FALSE, a)

\* the calculation button
ClickCalc ==
    /\ UNCHANGED widgets
    /\ Script(FALSE, TRUE, NoAnswer)

\* ttl=3600: an entry of the memo expires
CacheExpire ==
    \E t \in DOMAIN cache :
        /\ cache' = [k \in DOMAIN cache \ {t} |-> cache[k]]
        /\ UNCHANGED <<widgets, session_state, page>>

Next ==
    \/ SelectInputMethod
    \/ EditTicker
    \/ EditManual
    \/ SetDiscountRate
    \/ SetGrowthRate
    \/ SetTerminalGrowth
    \/ ClickFetch
    \/ ClickCalc
    \/ CacheExpire

Spec == Init /\ [][Next]_vars

(***************************************************************************)
(* The properties                                                          *)
(***************************************************************************)
\* The calculation branch was entered with inputs at hand: the button was
\* pressed and the run got past the "fetch the data first" guard.
Triggered == calc_btn /\ data_fetched

InvalidParameters == {"SharesZero", "RateRejected"}

NothingValued ==
    /\ terminal_value = Unset /\ pv_terminal_value = Unset
    /\ enterprise_value = Unset /\ intrinsic_value = Unset /\ diff_pct = Unset

Negative(x) == x.n < 0

Years == 1 .. projection_years

\* C1: whenever the calculation is triggered with discount_rate equal to
\* or below terminal_growth, the run ends with an InvalidParameters error
\* and no terminal value, enterprise value or intrinsic value is computed.
C1_RateRejected ==
    (Triggered /\ discount_rate <= terminal_growth)
        => (outcome \in InvalidParameters /\ NothingValued)

\* C2: whenever the calculation is triggered with shares_outstanding == 0,
\* the run ends with the shares-outstanding error and the division
\* enterprise_value / shares_outstanding is not executed.
C2_ZeroSharesRejected ==
    (Triggered /\ shares_outstanding = Rat(0))
        => (outcome = "SharesZero" /\ NothingValued)

C2_Witness ==
    /\ calc_btn /\ input_method = "manual" /\ shares_outstanding = Rat(0)
    /\ discount_rate > terminal_growth /\ outcome = "SharesZero"

\* C3: whenever the calculation is triggered with a negative
\* shares_outstanding, it is rejected with InvalidParameters and no
\* intrinsic value per share is produced.
C3_NegativeSharesRejected ==
    (Triggered /\ shares_outstanding # NoneV /\ Negative(shares_outstanding))
        => (outcome \in InvalidParameters /\ intrinsic_value = Unset)

\* C4: the projected FCF recorded for year t is F0 * (1+g)^t, each year's
\* value being the previous year's times (1+g), starting from F0.
C4_GeometricCompounding ==
    future_fcfs # Unset =>
        /\ Len(future_fcfs) = projection_years
        /\ \A t \in Years :
            /\ future_fcfs[t] = Mul(latest_fcf, Pow(OnePlus(growth_rate), t))
            /\ future_fcfs[t] = Mul(IF t = 1 THEN latest_fcf ELSE future_fcfs[t - 1],
                                    OnePlus(growth_rate))

C4_Witness ==
    /\ outcome = "rendered" /\ latest_fcf = Rat(1) /\ growth_rate = 10
    /\ future_fcfs[projection_years] = [n |-> 161051, d |-> 100000]

\* C5: enterprise_value is the sum over the years of
\* projected_fcf[t] / (1+discount_rate)^t plus pv_terminal_value, where
\* pv_terminal_value is projected_fcf[5] * (1+terminal_growth) /
\* (discount_rate - terminal_growth) discounted by (1+discount_rate)^5, and
\* the intrinsic value per share is enterprise_value / shares_outstanding.
C5_EnterpriseValue ==
    enterprise_value # Unset =>
        /\ pv_terminal_value =
               Div(Div(Mul(future_fcfs[projection_years], OnePlus(terminal_growth)),
                       Pct(discount_rate - terminal_growth)),
                   Pow(OnePlus(discount_rate), projection_years))
        /\ enterprise_value =
               Add(Sum([t \in Years |->
                           Div(future_fcfs[t], Pow(OnePlus(discount_rate), t))]),
                   pv_terminal_value)
        /\ intrinsic_value # Unset => intrinsic_value = Div(enterprise_value, shares_outstanding)

C5_Witness ==
    /\ outcome = "rendered" /\ latest_fcf = Rat(1) /\ shares_outstanding = Rat(-1)
    /\ discount_rate = 20 /\ terminal_growth = 10 /\ growth_rate = 20
    /\ enterprise_value = Rat(16) /\ intrinsic_value = Rat(-16)

\* C6: with a negative base FCF and a positive growth rate, every valid
\* input gives projected FCFs that are negative and more negative year by
\* year and a negative enterprise_value, and no error is raised.
C6_NegativeFcf ==
    (/\ Triggered /\ latest_fcf # NoneV /\ shares_outstanding # NoneV
     /\ Negative(latest_fcf) /\ growth_rate > 0
     /\ discount_rate > terminal_growth /\ shares_outstanding.n > 0)
        => /\ outcome = "rendered"
           /\ \A t \in Years :
               /\ Negative(future_fcfs[t])
               /\ Negative(Sub(future_fcfs[t],
                               IF t = 1 THEN latest_fcf ELSE future_fcfs[t - 1]))
           /\ Negative(enterprise_value)

\* The valuation as a function of its five inputs and of nothing else.
Valuation(fcf, g, r, tg, shares) ==
    LET proj(t) == Mul(fcf, Pow(OnePlus(g), t))
        pv(t) == Div(proj(t), Pow(OnePlus(r), t))
        lists == [future_fcfs |-> [t \in Years |-> proj(t)],
                  pv_fcfs |-> [t \in Years |-> pv(t)]]
        tv == Div(Mul(proj(projection_years), OnePlus(tg)), Pct(r - tg))
        pv_tv == Div(tv, Pow(OnePlus(r), projection_years))
        ev == Add(Add(Add(Add(Add(pv(1), pv(2)), pv(3)), pv(4)), pv(5)), pv_tv)
    IN  IF shares = Rat(0) \/ fcf = NoneV THEN NoFigures
        ELSE IF r <= tg THEN lists @@ NoFigures
        ELSE [terminal_value |-> tv, pv_terminal_value |-> pv_tv, enterprise_value |-> ev,
              intrinsic_value |-> Div(ev, shares)] @@ lists @@ NoFigures

\* C7: a valuation depends on base FCF, growth rate, discount rate,
\* terminal growth rate and shares outstanding alone: whatever was fetched,
\* stored or computed before, the figures of a run are those the five
\* inputs determine, so two runs on the same inputs give the same figures.
C7_DependsOnInputsOnly ==
    Triggered =>
        LET v == Valuation(latest_fcf, growth_rate, discount_rate, terminal_growth,
                           shares_outstanding)
        IN  /\ future_fcfs = v.future_fcfs
            /\ pv_fcfs = v.pv_fcfs
            /\ terminal_value = v.terminal_value
            /\ pv_terminal_value = v.pv_terminal_value
            /\ enterprise_value = v.enterprise_value
            /\ intrinsic_value = v.intrinsic_value

C7_Witness ==
    /\ calc_btn /\ input_method = "manual" /\ outcome = "rendered"
    /\ "fetched_fcf" \in DOMAIN session_state
    /\ session_state["fetched_fcf"] # latest_fcf
    /\ session_state["fetched_shares"] # shares_outstanding

\* C8: every failure to obtain the figures is reported as an error, and a
\* missing value (None) or the placeholder 0.0 is never stored as fetched
\* data nor used as an input of a valuation in the automatic mode.
C8_FailuresReported ==
    /\ (fetch_btn /\ input_method = "auto" /\ ticker_input \in DOMAIN cache
            /\ cache[ticker_input].err # NoneV)
        => fetch_msg = "error"
    /\ \A k \in DOMAIN session_state : session_state[k] \notin {NoneV, Rat(0)}
    /\ (calc_btn /\ input_method = "auto" /\ outcome \notin {"idle", "NeedFetch"})
        => /\ current_price \notin {NoneV, Rat(0)}
           /\ shares_outstanding \notin {NoneV, Rat(0)}
           /\ latest_fcf \notin {NoneV, Rat(0)}

\* the figures a successful query of the provider gives for a ticker
SuccessfulFetches(ticker) ==
    {res \in {GetStockData(a) : a \in ProviderAnswers(ticker)} : res.err = NoneV}

\* C9: the stored price, shares outstanding, FCF and ticker all come from
\* one successful fetch, a failed fetch having left them unchanged, and the
\* ticker displayed in the automatic mode names the company whose figures
\* the calculation uses.
C9_StoredFromOneFetch ==
    "fetched_price" \in DOMAIN session_state =>
        /\ DOMAIN session_state = {"fetched_price", "fetched_shares", "fetched_fcf", "ticker"}
        /\ \E res \in SuccessfulFetches(session_state["ticker"].s) :
            /\ session_state["fetched_price"] = res.p
            /\ session_state["fetched_shares"] = res.s
            /\ session_state["fetched_fcf"] = res.f
        /\ input_method = "auto" =>
            /\ ticker_display = session_state["ticker"]
            /\ current_price = session_state["fetched_price"]
            /\ shares_outstanding = session_state["fetched_shares"]
            /\ latest_fcf = session_state["fetched_fcf"]

\* C10: every input that passes validation (discount_rate above
\* terminal_growth, shares_outstanding not zero), current_price == 0
\* included, is valued and rendered.
C10_ValidInputRenders ==
    (/\ Triggered /\ latest_fcf # NoneV /\ shares_outstanding # NoneV
     /\ discount_rate > terminal_growth /\ shares_outstanding # Rat(0))
        => outcome = "rendered"
====
